---------------------------- MODULE Spec2Model ----------------------------
(***************************************************************************)
(* Model of src/script.py (ConvenioExtractor): the rule-based extraction   *)
(* engine for "convenio" documents.  Texts and locators are TLA+ strings   *)
(* handled character by character (SubSeq, Len, \o), and the regular       *)
(* expressions of the source are transcribed node by node and run by a     *)
(* backtracking matcher with Python's priority order (leftmost start,      *)
(* greedy/lazy quantifiers, first alternative first).                      *)
(*                                                                         *)
(* Recursion over the characters of a text is avoided (runs of a class,    *)
(* the leftmost start and str.strip are found by bounded choice), so that  *)
(* texts of more than a hundred characters can be handled.                 *)
(***************************************************************************)
EXTENDS Integers, Sequences, FiniteSets, TLC

VARIABLES op, inp, text, url, result, log

vars == <<op, inp, text, url, result, log>>

---------------------------------------------------------------------------
(* Characters and strings                                                  *)

Ch(s, i) == SubSeq(s, i, i)

UpperLetters == "ABCDEFGHIJKLMNOPQRSTUVWXYZ"

LowerLetters == "abcdefghijklmnopqrstuvwxyz"

DigitChars == "0123456789"

CharsOf(s) == {Ch(s, i) : i \in 1..Len(s)}

Upper == CharsOf(UpperLetters)

Lower == CharsOf(LowerLetters)

Digit == CharsOf(DigitChars)

\* \w of Python's re on str patterns (ASCII part, plus the accented letters
\* the source names)
Word == Upper \cup Lower \cup Digit \cup {"_"}

\* \s of Python's re
Space == {" ", "\t", "\n", "\r", "\f"}

LowerOfChar == [c \in Upper |-> Ch(LowerLetters, CHOOSE i \in 1..26 : Ch(UpperLetters, i) = c)]

UpperOfChar == [c \in Lower |-> Ch(UpperLetters, CHOOSE i \in 1..26 : Ch(LowerLetters, i) = c)]

LowerChar(c) == IF c \in Upper THEN LowerOfChar[c] ELSE c

UpperChar(c) == IF c \in Lower THEN UpperOfChar[c] ELSE c

Min(S) == CHOOSE x \in S : \A y \in S : x <= y

Max(S) == CHOOSE x \in S : \A y \in S : x >= y

RECURSIVE lower(_)
\* str.lower(), by halves
lower(s) ==
  IF Len(s) = 0 THEN ""
  ELSE IF Len(s) = 1 THEN LowerChar(s)
  ELSE LET h == Len(s) \div 2
       IN lower(SubSeq(s, 1, h)) \o lower(SubSeq(s, h + 1, Len(s)))

\* str.strip()
strip(s) ==
  LET keep == {i \in 1..Len(s) : Ch(s, i) \notin Space}
  IN IF keep = {} THEN "" ELSE SubSeq(s, Min(keep), Max(keep))

\* str.zfill(width) on a string without sign
\* str.zfill left out: the digits as they were captured
Unfilled(s, w) == s

RECURSIVE zfill(_, _)
zfill(s, w) == IF Len(s) >= w THEN s ELSE zfill("0" \o s, w)

\* s[:n]
Prefix(s, n) == IF Len(s) <= n THEN s ELSE SubSeq(s, 1, n)

\* Python's  sub in s
In(sub, s) ==
  \E i \in 1..(Len(s) - Len(sub) + 1) : SubSeq(s, i, i + Len(sub) - 1) = sub

DigitVal(c) == CHOOSE d \in 0..9 : Ch(DigitChars, d + 1) = c

RECURSIVE IntFrom(_, _, _)
IntFrom(s, i, acc) ==
  IF i > Len(s) THEN acc ELSE IntFrom(s, i + 1, acc * 10 + DigitVal(Ch(s, i)))

\* int(s) for a string of decimal digits
int(s) == IntFrom(s, 1, 0)

---------------------------------------------------------------------------
(* Regular expressions: nodes                                              *)

Unbounded == -1

Lit(str) == [t |-> "lit", s |-> str]

Set(S) == [t |-> "set", cs |-> S, neg |-> FALSE]

NotSet(S) == [t |-> "set", cs |-> S, neg |-> TRUE]

\* "." without re.DOTALL
Dot == NotSet({"\n"})

\* "." with re.DOTALL
DotAll == NotSet({})

Rep(n, lo, hi) == [t |-> "rep", n |-> n, lo |-> lo, hi |-> hi, greedy |-> TRUE]

LazyRep(n, lo, hi) == [t |-> "rep", n |-> n, lo |-> lo, hi |-> hi, greedy |-> FALSE]

Plus(n) == Rep(n, 1, Unbounded)

Star(n) == Rep(n, 0, Unbounded)

Opt(n) == Rep(n, 0, 1)

Cat(ns) == [t |-> "cat", ns |-> ns]

Alt(ns) == [t |-> "alt", ns |-> ns]

Grp(k, n) == [t |-> "grp", k |-> k, n |-> n]

\* \b
WB == [t |-> "wb"]

GrpOpen(k) == [t |-> "open", k |-> k]

GrpClose(k) == [t |-> "close", k |-> k]

\* capture groups 1..3: <<first index, index after the last>>, <<0, 0>> unset
NoCaps == <<<<0, 0>>, <<0, 0>>, <<0, 0>>>>

NoMatch == [ok |-> FALSE, b |-> 0, e |-> 0, c |-> NoCaps]

IsWordAt(s, i) == i >= 1 /\ i <= Len(s) /\ Ch(s, i) \in Word

Dec(hi) == IF hi = Unbounded THEN Unbounded ELSE hi - 1

\* one character against a class; ci is re.IGNORECASE
CharOK(n, s, i, ci) ==
  LET ch == Ch(s, i)
      hit == \/ ch \in n.cs
             \/ ci /\ (LowerChar(ch) \in n.cs \/ UpperChar(ch) \in n.cs)
  IN hit # n.neg

\* a literal at position i
LitOK(str, s, i, ci) ==
  /\ i + Len(str) - 1 <= Len(s)
  /\ \A j \in 1..Len(str) :
        \/ Ch(s, i + j - 1) = Ch(str, j)
        \/ ci /\ LowerChar(Ch(s, i + j - 1)) = LowerChar(Ch(str, j))

\* how many consecutive characters from i the class n matches, at most hi
RunLen(n, s, i, ci, hi) ==
  LET left == Len(s) - i + 1
      limit == IF hi = Unbounded \/ hi > left THEN left ELSE hi
  IN CHOOSE r \in 0..limit :
       /\ r = limit \/ ~CharOK(n, s, i + r, ci)
       /\ \A j \in 0..(r - 1) : CharOK(n, s, i + j, ci)

RECURSIVE M(_, _, _, _, _)
RECURSIVE MAlt(_, _, _, _, _, _, _)
\* The backtracking matcher: k is the sequence of nodes still to match at
\* position i of s; the first success in priority order is returned.  A
\* repeated character class takes the longest (greedy) or shortest (lazy)
\* run after which the rest matches.
M(k, s, i, c, ci) ==
  IF k = <<>> THEN [ok |-> TRUE, b |-> 0, e |-> i, c |-> c]
  ELSE
    LET n == Head(k)
        rest == Tail(k)
    IN
    CASE n.t = "lit" ->
           IF LitOK(n.s, s, i, ci) THEN M(rest, s, i + Len(n.s), c, ci) ELSE NoMatch
      [] n.t = "set" ->
           IF i <= Len(s) /\ CharOK(n, s, i, ci) THEN M(rest, s, i + 1, c, ci) ELSE NoMatch
      [] n.t = "wb" ->
           IF IsWordAt(s, i - 1) # IsWordAt(s, i) THEN M(rest, s, i, c, ci) ELSE NoMatch
      [] n.t = "cat" -> M(n.ns \o rest, s, i, c, ci)
      [] n.t = "alt" -> MAlt(n.ns, 1, rest, s, i, c, ci)
      [] n.t = "grp" -> M(<<GrpOpen(n.k), n.n, GrpClose(n.k)>> \o rest, s, i, c, ci)
      [] n.t = "open" -> M(rest, s, i, [c EXCEPT ![n.k] = <<i, 0>>], ci)
      [] n.t = "close" -> M(rest, s, i, [c EXCEPT ![n.k] = <<c[n.k][1], i>>], ci)
      [] n.t = "rep" /\ n.n.t = "set" ->
           LET run == RunLen(n.n, s, i, ci, n.hi)
               J == {j \in n.lo..run : M(rest, s, i + j, c, ci).ok}
           IN IF J = {} THEN NoMatch
              ELSE M(rest, s, i + (IF n.greedy THEN Max(J) ELSE Min(J)), c, ci)
      [] n.t = "rep" /\ n.n.t # "set" ->
           LET more == IF n.hi = 0 THEN NoMatch
                       ELSE M(<<n.n, [n EXCEPT !.lo = IF n.lo > 0 THEN n.lo - 1 ELSE 0,
                                               !.hi = Dec(n.hi)]>> \o rest, s, i, c, ci)
           IN IF n.greedy
              THEN IF more.ok THEN more
                   ELSE IF n.lo = 0 THEN M(rest, s, i, c, ci) ELSE NoMatch
              ELSE IF n.lo > 0 THEN more
                   ELSE LET stop == M(rest, s, i, c, ci)
                        IN IF stop.ok THEN stop ELSE more

MAlt(ns, j, rest, s, i, c, ci) ==
  IF j > Len(ns) THEN NoMatch
  ELSE LET r == M(<<ns[j]>> \o rest, s, i, c, ci)
       IN IF r.ok THEN r ELSE MAlt(ns, j + 1, rest, s, i, c, ci)

\* the match that starts at the leftmost of the starts
MatchAtFirst(re, s, starts, ci) ==
  IF starts = {} THEN NoMatch
  ELSE [M(<<re>>, s, Min(starts), NoCaps, ci) EXCEPT !.b = Min(starts)]

\* pattern.search(s, i - 1): the leftmost start >= i where the pattern matches
SearchFrom(re, s, i, ci) ==
  MatchAtFirst(re, s, {b \in i..(Len(s) + 1) : M(<<re>>, s, b, NoCaps, ci).ok}, ci)

\* re.search(pattern, s)
Search(re, s) == SearchFrom(re, s, 1, FALSE)

\* re.search(pattern, s, re.IGNORECASE)
SearchI(re, s) == SearchFrom(re, s, 1, TRUE)

\* match.group(k)
Group(m, k, s) == SubSeq(s, m.c[k][1], m.c[k][2] - 1)

RECURSIVE FindIter(_, _, _, _)
RECURSIVE FindIterAfter(_, _, _, _)
\* re.finditer(pattern, s) from index i on: the non-overlapping matches, left
\* to right
FindIter(re, s, i, ci) == FindIterAfter(re, s, SearchFrom(re, s, i, ci), ci)

\* the match m and the matches after it
FindIterAfter(re, s, m, ci) ==
  IF ~m.ok THEN <<>>
  ELSE <<m>> \o FindIter(re, s, IF m.e > m.b THEN m.e ELSE m.e + 1, ci)

---------------------------------------------------------------------------
(* ConvenioExtractor.__init__: the taxonomy tables, in declaration order   *)

tipos_convenio ==
  << <<"acta acuerdo", "Acta Acuerdo">>,
     <<"acta complemento", "Acta Complemento">>,
     <<"acta compromiso", "Acta Compromiso">>,
     <<"acta especifica", "Acta Especifica">>,
     <<"acuerdo", "Acuerdo">>,
     <<"acuerdo complementario", "Acuerdo Complementario">>,
     <<"acuerdo cooperacion", "Acuerdo Cooperacion">>,
     <<"acuerdo especifico", "Acuerdo Especifico">>,
     <<"acuerdo investigacion", "Acuerdo Investigacion">>,
     <<"adenda", "Adenda">>,
     <<"adhesion", "Adhesion">>,
     <<"anexo", "Anexo">>,
     <<"comision de estudio", "Comision de Estudio">>,
     <<"carta intencion", "Carta Intencion">>,
     <<"especifico", "Especifico">>,
     <<"general", "General">>,
     <<"marco", "Marco">>,
     <<"marco de colaboracion", "Marco de Colaboracion">>,
     <<"marco de cooperacion", "Marco de Cooperacion">>,
     <<"marco de investigacion", "Marco de Investigacion">>,
     <<"marco de intercambio", "Marco de Intercambio">>,
     <<"marco de intercambio de alumnos", "Marco de Intercambio de Alumnos">>,
     <<"marco de pasantias", "Marco de Pasantias">>,
     <<"memorandum", "Memorandum">>,
     <<"memorandum de entendimiento", "Memorandum de Entendimiento">>,
     <<"pps", "PPS">>,
     <<"protocolo", "Protocolo">>,
     <<"protocolo adicional", "Protocolo Adicional">>,
     <<"protocolo de colaboracion", "Protocolo de Colaboracion">>,
     <<"protocolo especifico", "Protocolo Especifico">>,
     <<"protocolo de investigacion", "Protocolo de Investigacion">>,
     <<"proyecto", "Proyecto">>,
     <<"subvencion", "Subvencion">>,
     <<"transferencia tecnologica", "Transferencia Tecnologica">> >>

tipos_institucion ==
  << <<"agencia", "Agencia">>,
     <<"agremiacion", "Agremiacion">>,
     <<"asociacion", "Asociacion">>,
     <<"club", "Club">>,
     <<"educativa", "Educativa">>,
     <<"empresa", "Empresa">>,
     <<"ente", "Ente">>,
     <<"fundacion", "Fundacion">>,
     <<"gobierno", "Gobierno">>,
     <<"gubernamental", "Gubernamental">>,
     <<"investigadora", "Investigadora">>,
     <<"instituto", "Instituto">>,
     <<"nacional", "Nacional">>,
     <<"municipal", "Municipal">>,
     <<"salud", "Salud">>,
     <<"sindical", "Sindical">>,
     <<"social", "Social">>,
     <<"ong", "ONG">>,
     <<"universitaria", "Universitaria">>,
     <<"universidad", "Universitaria">>,
     <<"provincia", "Gubernamental">>,
     <<"ministerio", "Gubernamental">>,
     <<"direccion", "Gubernamental">> >>

tipos_renovacion ==
  << <<"partes iguales", "Partes Iguales">>,
     <<"escalera", "Escalera">>,
     <<"unica", "Unica">>,
     <<"sin renovacion", "Sin Renovacion">>,
     <<"renovable", "Renovable de Comun Acuerdo">>,
     <<"renovable de comun acuerdo", "Renovable de Comun Acuerdo">> >>

cargos ==
  << <<"rector", "Rector/a">>,
     <<"rectora", "Rector/a">>,
     <<"vicerrector", "Vicerrector/a">>,
     <<"vicerrectora", "Vicerrector/a">>,
     <<"secretario", "Secretario/a">>,
     <<"secretaria", "Secretario/a">>,
     <<"coordinador", "Coordinador/a">>,
     <<"coordinadora", "Coordinador/a">>,
     <<"decano", "Decano/a">>,
     <<"decana", "Decano/a">>,
     <<"vicedecano", "Vicedecano/a">>,
     <<"vicedecana", "Vicedecano/a">>,
     <<"director", "Director/a">>,
     <<"directora", "Director/a">>,
     <<"investigador", "Investigador/a">>,
     <<"investigadora", "Investigador/a">>,
     <<"ministro", "Director/a">>,
     <<"ministra", "Director/a">>,
     <<"interventor", "Director/a">>,
     <<"interventora", "Director/a">> >>

\* the methods the class defines (def lines of the class body)
Methods ==
  {"__init__", "download_file", "extract_text_from_file", "extract_text_from_html",
   "extract_text_from_pdf", "ocr_pdf", "extract_resolution_data",
   "extract_convenio_data", "extract_institutions", "extract_signers",
   "process_single_pdf", "process_urls_file"}

---------------------------------------------------------------------------
(* Shared pieces of the extraction passes                                  *)

D(lo, hi) == Rep(Set(Digit), lo, hi)

Sp == Set(Space)

\* a pattern with its source text:  'de' in pattern  reads the text
Pat(src, re) == [src |-> src, re |-> re]

month_map ==
  << <<"enero", "01">>, <<"febrero", "02">>, <<"marzo", "03">>, <<"abril", "04">>,
     <<"mayo", "05">>, <<"junio", "06">>, <<"julio", "07">>, <<"agosto", "08">>,
     <<"septiembre", "09">>, <<"octubre", "10">>, <<"noviembre", "11">>,
     <<"diciembre", "12">> >>

\* dict.get(key, default) on a table of pairs
Get(table, key, default) ==
  IF \E i \in 1..Len(table) : table[i][1] = key
  THEN table[CHOOSE i \in 1..Len(table) : table[i][1] = key][2]
  ELSE default

\* for pattern in pats: match = re.search(pattern, s): the first pattern, from
\* index j on, that matches, with its match: <<j, match>>, or <<0, NoMatch>>
RECURSIVE FirstMatch(_, _, _, _)
RECURSIVE FirstMatchOr(_, _, _, _, _)
FirstMatch(pats, j, s, ci) ==
  IF j > Len(pats) THEN <<0, NoMatch>>
  ELSE FirstMatchOr(pats, j, s, ci, SearchFrom(pats[j].re, s, 1, ci))

FirstMatchOr(pats, j, s, ci, m) ==
  IF m.ok THEN <<j, m>> ELSE FirstMatch(pats, j + 1, s, ci)

\* the expansion with the pivot one lower: 50 itself goes to the 1900s
ExpandYearFrom50(year) ==
  IF Len(year) = 2
  THEN (IF int(year) >= 50 THEN "19" \o year ELSE "20" \o year)
  ELSE year

\* "19" + year if int(year) > 50 else "20" + year, for a 2-character year
ExpandYear(year) ==
  IF Len(year) = 2
  THEN (IF int(year) > 50 THEN "19" \o year ELSE "20" \o year)
  ELSE year

\* the lookup without the break: the last declared term that matches wins
RECURSIVE LookupWholeWordLast(_, _, _, _)
LookupWholeWordLast(table, j, s, default) ==
  IF j > Len(table) THEN default
  ELSE IF SearchI(Cat(<<WB, Lit(table[j][1]), WB>>), s).ok
       THEN LookupWholeWordLast(table, j + 1, s, table[j][2])
  ELSE LookupWholeWordLast(table, j + 1, s, default)

\* for key, value in table.items(): if re.search(r'\b' + re.escape(key) + r'\b',
\* text, re.IGNORECASE): return value  (default when no key matches)
RECURSIVE LookupWholeWord(_, _, _, _)
LookupWholeWord(table, j, s, default) ==
  IF j > Len(table) THEN default
  ELSE IF SearchI(Cat(<<WB, Lit(table[j][1]), WB>>), s).ok THEN table[j][2]
  ELSE LookupWholeWord(table, j + 1, s, default)

\* the substring lookup without the break
RECURSIVE LookupSubstringLast(_, _, _, _)
LookupSubstringLast(table, j, s, default) ==
  IF j > Len(table) THEN default
  ELSE IF In(table[j][1], s) THEN LookupSubstringLast(table, j + 1, s, table[j][2])
  ELSE LookupSubstringLast(table, j + 1, s, default)

\* for key, value in table.items(): if key in s: return value
RECURSIVE LookupSubstring(_, _, _, _)
LookupSubstring(table, j, s, default) ==
  IF j > Len(table) THEN default
  ELSE IF In(table[j][1], s) THEN table[j][2]
  ELSE LookupSubstring(table, j + 1, s, default)

---------------------------------------------------------------------------
(* extract_resolution_data                                                 *)

url_pattern ==
  Cat(<<Lit("R-DR-"), Grp(1, D(4, 4)), Lit("-"), Grp(2, D(3, 4)), Lit(".pdf")>>)

date_patterns ==
  << Pat("(\\d{1,2})\\s+de\\s+(\\w+)\\s+de\\s+(\\d{4})",
         Cat(<<Grp(1, D(1, 2)), Plus(Sp), Lit("de"), Plus(Sp), Grp(2, Plus(Set(Word))),
               Plus(Sp), Lit("de"), Plus(Sp), Grp(3, D(4, 4))>>)),
     Pat("(\\d{1,2})/(\\d{1,2})/(\\d{4})",
         Cat(<<Grp(1, D(1, 2)), Lit("/"), Grp(2, D(1, 2)), Lit("/"), Grp(3, D(4, 4))>>)),
     Pat("(\\d{4})-(\\d{1,2})-(\\d{1,2})",
         Cat(<<Grp(1, D(4, 4)), Lit("-"), Grp(2, D(1, 2)), Lit("-"), Grp(3, D(1, 2))>>)) >>

exp_pattern ==
  Cat(<<Lit("expediente"), Star(Sp), Lit("n"), Opt(Set({"°", "º"})), Star(Sp),
        Grp(1, Plus(Set(Digit))), Set({"/", "-"}), Grp(2, D(2, 4))>>)

\* lines 276-281 and 352-357: the date a spelled-month match gives
DateOfParts(day, month_name, year) ==
  year \o "-" \o zfill(Get(month_map, lower(month_name), "01"), 2) \o "-" \o zfill(day, 2)

SpelledDate(m, s) == DateOfParts(Group(m, 1, s), Group(m, 2, s), Group(m, 3, s))

\* lines 274-290: the date the match m of date pattern j gives (j = 0: none
\* of the patterns matched)
DateOfMatch(j, m, s) ==
  IF j = 0 THEN ""
  ELSE IF In("de", date_patterns[j].src) THEN SpelledDate(m, s)
  ELSE IF Len(Group(m, 1, s)) = 4
       THEN Group(m, 1, s) \o "-" \o zfill(Group(m, 2, s), 2) \o "-" \o zfill(Group(m, 3, s), 2)
       ELSE Group(m, 3, s) \o "-" \o zfill(Group(m, 2, s), 2) \o "-" \o zfill(Group(m, 1, s), 2)

\* lines 249-301, given the matches of the three searches
ResolutionData(s, u, url_match, fm, exp_match) ==
  [numero |-> IF url_match.ok THEN Group(url_match, 2, u) ELSE "",
   fecha |-> DateOfMatch(fm[1], fm[2], s),
   tipo |-> "DR",
   expediente_numero |-> IF exp_match.ok THEN Group(exp_match, 1, s) ELSE "",
   expediente_anio |->
     IF exp_match.ok THEN ExpandYear(Group(exp_match, 2, s))
     ELSE IF url_match.ok THEN Group(url_match, 1, u) ELSE "",
   dependencia_id |-> "",
   link |-> u]

extract_resolution_data(s, u) ==
  ResolutionData(s, u, Search(url_pattern, u), FirstMatch(date_patterns, 1, s, TRUE),
                 SearchI(exp_pattern, s))

---------------------------------------------------------------------------
(* extract_convenio_data                                                   *)

title_pattern ==
  Cat(<<Lit("convenio"), Plus(Sp), Grp(1, LazyRep(Dot, 1, Unbounded)),
        Alt(<<Lit("\n"), Lit(".")>>)>>)

\* <word>\s*:?\s*(\d+)\s*a[ñn]os?
YearsAfter(word) ==
  Cat(<<word, Star(Sp), Opt(Set({":"})), Star(Sp), Grp(1, Plus(Set(Digit))), Star(Sp),
        Lit("a"), Set({"ñ", "n"}), Lit("o"), Opt(Set({"s"}))>>)

duracion_patterns ==
  << Pat("duraci[oó]n\\s*:?\\s*(\\d+)\\s*a[ñn]os?",
         YearsAfter(Cat(<<Lit("duraci"), Set({"o", "ó"}), Lit("n")>>))),
     Pat("vigencia\\s*:?\\s*(\\d+)\\s*a[ñn]os?", YearsAfter(Lit("vigencia"))),
     Pat("plazo\\s*:?\\s*(\\d+)\\s*a[ñn]os?", YearsAfter(Lit("plazo"))) >>

firma_patterns ==
  << Pat("firmado\\s+el\\s+(\\d{1,2})[/\\-](\\d{1,2})[/\\-](\\d{2,4})",
         Cat(<<Lit("firmado"), Plus(Sp), Lit("el"), Plus(Sp), Grp(1, D(1, 2)),
               Set({"/", "-"}), Grp(2, D(1, 2)), Set({"/", "-"}), Grp(3, D(2, 4))>>)),
     Pat("suscr[i|í]pto?\\s+el\\s+(\\d{1,2})\\s+de\\s+(\\w+)\\s+de\\s+(\\d{4})",
         Cat(<<Lit("suscr"), Set({"i", "|", "í"}), Lit("pt"), Opt(Set({"o"})), Plus(Sp),
               Lit("el"), Plus(Sp), Grp(1, D(1, 2)), Plus(Sp), Lit("de"), Plus(Sp),
               Grp(2, Plus(Set(Word))), Plus(Sp), Lit("de"), Plus(Sp), Grp(3, D(4, 4))>>)) >>

internacional_pattern ==
  Cat(<<WB, Grp(1, Alt(<<Lit("internacional"), Lit("extranjero"), Lit("exterior")>>)), WB>>)

\* <word>\s*:?\s*(.+?)(?:\n\n|\.\s*[A-Z]), with re.DOTALL
PurposeAfter(word) ==
  Cat(<<word, Star(Sp), Opt(Set({":"})), Star(Sp), Grp(1, LazyRep(DotAll, 1, Unbounded)),
        Alt(<<Lit("\n\n"), Cat(<<Lit("."), Star(Sp), Set(Upper)>>)>>)>>)

objeto_patterns ==
  << Pat("objeto\\s*:?\\s*(.+?)(?:\\n\\n|\\.\\s*[A-Z])", PurposeAfter(Lit("objeto"))),
     Pat("prop[oó]sito\\s*:?\\s*(.+?)(?:\\n\\n|\\.\\s*[A-Z])",
         PurposeAfter(Cat(<<Lit("prop"), Set({"o", "ó"}), Lit("sito")>>))),
     Pat("finalidad\\s*:?\\s*(.+?)(?:\\n\\n|\\.\\s*[A-Z])", PurposeAfter(Lit("finalidad"))) >>

\* lines 348-363: the signing date the match m of firma pattern j gives
FirmaOfMatch(j, m, s) ==
  IF j = 0 THEN ""
  ELSE IF In("de", firma_patterns[j].src) THEN SpelledDate(m, s)
  ELSE ExpandYear(Group(m, 3, s)) \o "-" \o zfill(Group(m, 2, s), 2)
         \o "-" \o zfill(Group(m, 1, s), 2)

\* a record that starts without an agreement type
NoTipoConvenio == ""

\* the default of tipo_convenio (line 306)
DefaultTipoConvenio == "Marco"

\* match.group(1).strip()[:n] of a match, "" without one
Captured(m, s, n) == IF m.ok THEN Prefix(strip(Group(m, 1, s)), n) ELSE ""

\* lines 305-388, given the matches of the searches
ConvenioData(s, title_match, dur, firma, obj) ==
  [tipo_convenio |-> LookupWholeWord(tipos_convenio, 1, s, DefaultTipoConvenio),
   titulo |-> Captured(title_match, s, 255),
   duracion |-> IF dur[1] # 0 THEN Group(dur[2], 1, s) ELSE "",
   fecha_firma |-> FirmaOfMatch(firma[1], firma[2], s),
   tipo_renovacion |-> LookupWholeWord(tipos_renovacion, 1, s, ""),
   internacional |-> IF SearchI(internacional_pattern, s).ok THEN "true" ELSE "false",
   objeto |-> Captured(obj[2], s, 500),
   observaciones |-> ""]

extract_convenio_data(s) ==
  ConvenioData(s, SearchI(title_pattern, s), FirstMatch(duracion_patterns, 1, s, TRUE),
               FirstMatch(firma_patterns, 1, s, TRUE),
               FirstMatch(objeto_patterns, 1, s, TRUE))

---------------------------------------------------------------------------
(* extract_institutions                                                    *)

\* (<prefix>\s+[^,\n]+)
RestOfLine(prefix) == Grp(1, Cat(<<prefix, Plus(Sp), Plus(NotSet({",", "\n"}))>>))

institution_patterns ==
  << RestOfLine(Lit("Universidad")),
     RestOfLine(Lit("Instituto")),
     RestOfLine(Lit("Ministerio")),
     RestOfLine(Lit("Gobierno")),
     Grp(1, Cat(<<Lit("Provincia"), Plus(Sp), Lit("de"), Plus(Sp), Plus(Set(Word))>>)),
     RestOfLine(Lit("Municipalidad")),
     RestOfLine(Cat(<<Lit("Fundaci"), Set({"o", "ó"}), Lit("n")>>)),
     RestOfLine(Lit("Empresa")),
     RestOfLine(Cat(<<Lit("Asociaci"), Set({"o", "ó"}), Lit("n")>>)) >>

\* the entries of the list that is returned (line 431)
MaxInstitutions == 5

\* the key without .lower(): names that differ in case are both kept
InstitutionKeyExact(inst_name) == inst_name

\* the dedup key of a candidate name (lines 413-414)
InstitutionKey(inst_name) == lower(inst_name)

\* the body of the inner loop (lines 412-429) for one candidate name; acc
\* holds the set found_institutions and the list institutions
InstitutionAdd(acc, inst_name) ==
  IF Len(inst_name) > 5 /\ InstitutionKey(inst_name) \notin acc.found
  THEN [found |-> acc.found \cup {InstitutionKey(inst_name)},
        list |-> Append(acc.list,
                   [nombre |-> inst_name,
                    tipo |-> LookupSubstring(tipos_institucion, 1, lower(inst_name),
                                             "Universitaria"),
                    pais |-> "Argentina",
                    provincia |-> "Salta",
                    localidad |-> "Salta"])]
  ELSE acc

InstitutionStep(acc, m, s) == InstitutionAdd(acc, strip(Group(m, 1, s)))

RECURSIVE InstitutionMatches(_, _, _, _)
InstitutionMatches(acc, ms, j, s) ==
  IF j > Len(ms) THEN acc
  ELSE InstitutionMatches(InstitutionStep(acc, ms[j], s), ms, j + 1, s)

RECURSIVE InstitutionLoop(_, _, _)
InstitutionLoop(acc, p, s) ==
  IF p > Len(institution_patterns) THEN acc
  ELSE InstitutionLoop(
         InstitutionMatches(acc, FindIter(institution_patterns[p], s, 1, TRUE), 1, s),
         p + 1, s)

extract_institutions(s) ==
  Prefix(InstitutionLoop([found |-> {}, list |-> <<>>], 1, s).list, MaxInstitutions)

---------------------------------------------------------------------------
(* extract_signers                                                         *)

UpperAcc == Upper \cup {"Á", "É", "Í", "Ó", "Ú"}

LowerAcc == Lower \cup {"á", "é", "í", "ó", "ú"}

\* [A-ZÁÉÍÓÚ][a-záéíóú]+
CapWord == Cat(<<Set(UpperAcc), Plus(Set(LowerAcc))>>)

\* <title>\.\s+(CapWord)\s+(CapWord)
Titled(title) ==
  Cat(<<Lit(title), Lit("."), Plus(Sp), Grp(1, CapWord), Plus(Sp), Grp(2, CapWord)>>)

name_patterns ==
  << Cat(<<Grp(1, CapWord), Plus(Sp),
           Grp(2, Cat(<<CapWord, Star(Cat(<<Plus(Sp), CapWord>>))>>))>>),
     Titled("Dr"),
     Titled("Ing"),
     Titled("Lic") >>

\* the entries of the list that is returned (line 473)
MaxSigners == 5

\* the characters of context kept on each side of a match (line 459)
ContextWindow == 100

\* text[max(0, match.start()-100):match.end()+100]
Context(m, s) ==
  SubSeq(s, Max({1, m.b - ContextWindow}), Min({Len(s), m.e - 1 + ContextWindow}))

\* the dedup key of a signer (line 452)
SignerKey(nombre, apellido) == lower(nombre \o " " \o apellido)

\* the body of the inner loop (lines 450-471) for one match
SignerAdd(acc, nombre, apellido, context) ==
  IF SignerKey(nombre, apellido) \notin acc.found /\ Len(nombre) > 2 /\ Len(apellido) > 2
  THEN [found |-> acc.found \cup {SignerKey(nombre, apellido)},
        list |-> Append(acc.list,
                   [dni |-> "",
                    nombre |-> nombre,
                    apellido |-> apellido,
                    cargo |-> LookupSubstring(cargos, 1, lower(context), "Rector/a")])]
  ELSE acc

SignerStep(acc, m, s) == SignerAdd(acc, Group(m, 1, s), Group(m, 2, s), Context(m, s))

RECURSIVE SignerMatches(_, _, _, _)
SignerMatches(acc, ms, j, s) ==
  IF j > Len(ms) THEN acc
  ELSE SignerMatches(SignerStep(acc, ms[j], s), ms, j + 1, s)

RECURSIVE SignerLoop(_, _, _)
SignerLoop(acc, p, s) ==
  IF p > Len(name_patterns) THEN acc
  ELSE SignerLoop(SignerMatches(acc, FindIter(name_patterns[p], s, 1, FALSE), 1, s),
                  p + 1, s)

extract_signers(s) ==
  Prefix(SignerLoop([found |-> {}, list |-> <<>>], 1, s).list, MaxSigners)

---------------------------------------------------------------------------
(* ocr_pdf                                                                 *)

\* decimal rendering of a natural number (f-string of an int)
RECURSIVE Str(_)
Str(n) == IF n < 10 THEN Ch(DigitChars, n + 1) ELSE Str(n \div 10) \o Ch(DigitChars, (n % 10) + 1)

\* the index at which the loop breaks (line 239)
OcrPageLimit == 10

\* f"\n--- PÁGINA {i+1} ---\n{page_text}\n"
PageBlock(i, page_text) == "\n--- PÁGINA " \o Str(i + 1) \o " ---\n" \o page_text \o "\n"

\* what pytesseract.image_to_string gives for the image of index i
PageText(i) == "texto de la hoja " \o Str(i + 1)

RECURSIVE OcrLoop(_, _, _, _)
RECURSIVE OcrNext(_, _, _, _)
\* lines 234-240: the loop over enumerate(images), at index i; n is the
\* number of images, bad the page whose OCR raises (0: none), acc the text
\* so far and the number of pages handed to pytesseract
OcrLoop(n, bad, i, acc) ==
  IF i >= n THEN [text |-> acc.text, pages |-> acc.pages, log |-> <<>>]
  ELSE IF i + 1 = bad
  THEN [text |-> "", pages |-> acc.pages + 1, log |-> <<<<"ERROR", "Error en OCR">>>>]
  ELSE OcrNext(n, bad, i, [text |-> acc.text \o PageBlock(i, PageText(i)),
                           pages |-> acc.pages + 1])

\* lines 239-240: the test made after the page of index i was added
OcrNext(n, bad, i, acc) ==
  IF i >= OcrPageLimit THEN [text |-> acc.text, pages |-> acc.pages, log |-> <<>>]
  ELSE OcrLoop(n, bad, i + 1, acc)

\* One call of ocr_pdf on a file of n pages; converts tells whether
\* pdf2image.convert_from_path returns the images or raises.
ocr_pdf(n, converts, bad) ==
  IF ~converts THEN [text |-> "", pages |-> 0, log |-> <<<<"ERROR", "Error en OCR">>>>]
  ELSE OcrLoop(n, bad, 0, [text |-> "", pages |-> 0])

---------------------------------------------------------------------------
(* process_single_pdf                                                      *)

\* url.split('/')[-1]
LastSegment(u) ==
  LET slashes == {i \in 1..Len(u) : Ch(u, i) = "/"}
  IN IF slashes = {} THEN u ELSE SubSeq(u, Max(slashes) + 1, Len(u))

RECURSIVE Join(_, _)
\* sep.join(parts)
Join(parts, sep) ==
  IF parts = <<>> THEN ""
  ELSE IF Len(parts) = 1 THEN parts[1]
  ELSE parts[1] \o sep \o Join(Tail(parts), sep)

\* the text below which a document is reported as insufficient (line 488)
MinTextLen == 50

\* lines 499-526: the row built from the four passes
CsvRow(r, c, insts, signers) ==
  [resolucion |-> Join(<<r.numero, r.fecha, r.tipo, r.expediente_numero,
                         r.expediente_anio, r.dependencia_id, r.link>>, "|"),
   tipo_convenio |-> c.tipo_convenio,
   titulo |-> c.titulo,
   duracion |-> c.duracion,
   fecha_firma |-> c.fecha_firma,
   tipo_renovacion |-> c.tipo_renovacion,
   internacional |-> c.internacional,
   objeto |-> c.objeto,
   observaciones |-> c.observaciones,
   instituciones |->
     Join([k \in 1..Len(insts) |->
             Join(<<insts[k].nombre, insts[k].tipo, "", "", insts[k].pais,
                    insts[k].provincia, insts[k].localidad>>, "|")], ";"),
   dependencias |-> "Rectorado|UNSa|rectorado|Argentina|Salta|Salta|true",
   firmantes |->
     Join([k \in 1..Len(signers) |->
             Join(<<signers[k].dni, signers[k].nombre, signers[k].apellido, "",
                    "Argentina", "Salta", "Salta", "", "", signers[k].cargo, "true">>,
                  "|")], ";")]

\* One call of process_single_pdf(url).  downloaded is what the download
\* returns and t the text extract_text_from_pdf gives for the file (both
\* belong to the environment).  The outcome names the exception that leaves
\* the method ("" when it returns), the value returned, the passes that ran
\* and the records logged.
process_single_pdf(u, t, downloaded) ==
  IF "download_pdf" \notin Methods
  THEN [raised |-> "AttributeError", value |-> "None", passes |-> {}, log |-> <<>>]
  ELSE IF ~downloaded
  THEN [raised |-> "", value |-> "None", passes |-> {}, log |-> <<>>]
  ELSE IF Len(strip(t)) < MinTextLen
  THEN [raised |-> "", value |-> "None", passes |-> {},
        log |-> <<<<"WARNING", "Texto insuficiente en " \o LastSegment(u)>>>>]
  ELSE [raised |-> "",
        value |-> CsvRow(extract_resolution_data(t, u), extract_convenio_data(t),
                         extract_institutions(t), extract_signers(t)),
        passes |-> {"extract_resolution_data", "extract_convenio_data",
                    "extract_institutions", "extract_signers"},
        log |-> <<>>]

---------------------------------------------------------------------------
(* process_urls_file                                                       *)

\* the columns of the CSV (lines 546-550)
fieldnames ==
  <<"resolucion", "tipo_convenio", "titulo", "duracion", "fecha_firma", "tipo_renovacion",
    "internacional", "objeto", "observaciones", "instituciones", "dependencias", "firmantes">>

\* urls = [line.strip() for line in f if line.strip()]; an entry keeps,
\* next to its line, the document the environment serves for it
NonBlank(entry) == strip(entry.line) # ""

UrlEntries(entries) == SelectSeq(entries, NonBlank)

RECURSIVE BatchLoop(_, _, _)
RECURSIVE BatchStep(_, _, _, _)
\* lines 560-577: the loop over the URLs, at the i-th of them; acc holds the
\* URLs attempted, the two counters and the rows written
BatchLoop(entries, i, acc) ==
  IF i > Len(entries) THEN [acc EXCEPT !.completed = TRUE]
  ELSE BatchStep(entries, i, acc,
                 process_single_pdf(strip(entries[i].line), entries[i].text,
                                    entries[i].downloaded))

\* lines 563-570 for the outcome out of process_single_pdf; an exception
\* that leaves it ends the loop at the handler of line 579
BatchStep(entries, i, acc, out) ==
  IF out.raised # ""
  THEN [acc EXCEPT !.attempted = Append(@, strip(entries[i].line)),
                   !.log = @ \o out.log \o <<<<"ERROR", "Error general">>>>]
  ELSE IF out.value # "None"
  THEN BatchLoop(entries, i + 1,
                 [acc EXCEPT !.attempted = Append(@, strip(entries[i].line)),
                             !.rows = Append(@, out.value),
                             !.processed = @ + 1,
                             !.log = @ \o out.log])
  ELSE BatchLoop(entries, i + 1,
                 [acc EXCEPT !.attempted = Append(@, strip(entries[i].line)),
                             !.errors = @ + 1,
                             !.log = @ \o out.log \o <<<<"ERROR", "Error procesando">>>>])

\* One call of process_urls_file on a file of the given lines; readable
\* tells whether the file opens.  The outcome holds the URLs handed to
\* process_single_pdf, the counters, the header and rows of the CSV, whether
\* the end of the loop (line 576) was reached, and the records logged.
process_urls_file(entries, readable) ==
  IF ~readable
  THEN [attempted |-> <<>>, processed |-> 0, errors |-> 0, header |-> <<>>, rows |-> <<>>,
        completed |-> FALSE, log |-> <<<<"ERROR", "Error general">>>>]
  ELSE BatchLoop(UrlEntries(entries), 1,
                 [attempted |-> <<>>, processed |-> 0, errors |-> 0, header |-> fieldnames,
                  rows |-> <<>>, completed |-> FALSE, log |-> <<>>])

---------------------------------------------------------------------------
(* The documents and locators the passes are applied to.  inp records how   *)
(* the text of a call was put together.                                    *)

Pad2(n) == IF n < 10 THEN "0" \o Str(n) ELSE Str(n)

RECURSIVE upper(_)
upper(s) ==
  IF Len(s) = 0 THEN ""
  ELSE IF Len(s) = 1 THEN UpperChar(s)
  ELSE LET h == Len(s) \div 2
       IN upper(SubSeq(s, 1, h)) \o upper(SubSeq(s, h + 1, Len(s)))

SpanishMonths ==
  <<"enero", "febrero", "marzo", "abril", "mayo", "junio", "julio", "agosto",
    "septiembre", "octubre", "noviembre", "diciembre">>

\* the days and months written into dates run to MaxDay and MaxMonth, past
\* the calendar's; the days between are the ends of the months and the days
\* around the first two-digit day
MaxDay == 32

MaxMonth == 13

Days == {0, 1, 9, 10, 28, 29, 30, 31, MaxDay}

Years == {2020, 2023}

IsLeap(y) == (y % 4 = 0 /\ y % 100 # 0) \/ y % 400 = 0

DaysIn(m, y) ==
  IF m = 2 THEN (IF IsLeap(y) THEN 29 ELSE 28)
  ELSE IF m \in {4, 6, 9, 11} THEN 30 ELSE 31

ValidDate(d, m, y) == m \in 1..12 /\ d >= 1 /\ d <= DaysIn(m, y)

Num(n, pad) == IF pad THEN Pad2(n) ELSE Str(n)

\* a date written in one of the three supported formats
Render(fmt, d, m, y, pad) ==
  CASE fmt = "spelled" -> Num(d, pad) \o " de " \o SpanishMonths[m] \o " de " \o Str(y)
    [] fmt = "slash" -> Num(d, pad) \o "/" \o Num(m, pad) \o "/" \o Str(y)
    [] fmt = "dash" -> Str(y) \o "-" \o Num(m, pad) \o "-" \o Num(d, pad)

DateInputs ==
  {[kind |-> "date", fmt |-> f, d |-> d, m |-> m, y |-> y, pad |-> pd] :
     f \in {"spelled", "slash", "dash"}, d \in Days, m \in 0..MaxMonth,
     y \in Years, pd \in BOOLEAN}

\* the dates that are written: a month name needs a month of the calendar,
\* padding is tried where it changes the text, and the year that is not a
\* leap year is tried in February
DateDraws ==
  {x \in DateInputs :
     /\ x.fmt = "spelled" => x.m \in 1..12
     /\ x.pad => (x.d < 10 \/ (x.m < 10 /\ x.fmt # "spelled"))
     /\ ~IsLeap(x.y) => x.m = 2}

DateText(x) == Render(x.fmt, x.d, x.m, x.y, x.pad)

\* year tokens written after "expediente n <num>/" and "firmado el d/m/":
\* every two-digit year, and tokens of three, four and five digits
MaxYY == 99

LongYearTokens == <<"202", "2020", "1999", "0051", "20205", "051">>

YearTokens == {Pad2(n) : n \in 0..MaxYY} \cup {LongYearTokens[k] : k \in 1..Len(LongYearTokens)}

\* the tokens also written after "-"
DashTokens == {"49", "50", "51"} \cup {LongYearTokens[k] : k \in 1..Len(LongYearTokens)}

YearInputs(c) ==
  {[kind |-> "year", ctx |-> c, tok |-> t, sep |-> "/"] : t \in YearTokens}
  \cup {[kind |-> "year", ctx |-> c, tok |-> t, sep |-> "-"] : t \in DashTokens}

YearText(x) ==
  IF x.ctx = "expediente"
  THEN "Expediente N " \o "1234" \o x.sep \o x.tok \o " del registro"
  ELSE "Convenio firmado el 7" \o x.sep \o "8" \o x.sep \o x.tok \o " en Salta"

\* the sentence of the end-to-end scenario, alone and with text around it
Sentence ==
  "Acuerdo de Cooperacion firmado el 15 de marzo de 2020 entre la Universidad Nacional de Salta y el Ministerio de Educacion"

Before == <<"", "Visto lo actuado: ">>

After == <<"", "\nPor ello se resuelve aprobar", ", en Salta">>

ScenarioInputs ==
  {[kind |-> "scenario", pre |-> a, post |-> b] : a \in 1..Len(Before), b \in 1..Len(After)}

ScenarioText(x) == Before[x.pre] \o Sentence \o After[x.post]

\* documents in which no pattern of the engine matches, and documents that
\* exercise the remaining fields
PlainTexts ==
  <<"", "   ", "sin datos", "Al Gore", "los marcos y acuerdos premarco",
    "texto de una resolucion que no trae dato alguno para extraer, ni tipo ni partes",
    "99/99/2020", "0 de enero de 2020", "3 de brumario de 1999", "fecha 1/2/202 y 15-3-2020",
    "firmado el 99/99/2020", "firmado el 1/2/202", "suscripto el 4 de Mayo de 2001",
    "suscripto el 0 de mayo de 2001", "Expediente N 12/202",
    "Convenio marco de cooperacion internacional.\nVigencia: 5 anos. Objeto: promover la ciencia. Luego",
    "CONVENIO de pasantias\nduracion 2 anos, renovable. Finalidad cooperar\n\nfin",
    "plazo:3 ano proposito : x. y exterior">>

PlainInputs == {[kind |-> "plain", k |-> k] : k \in 1..Len(PlainTexts)}

\* one or two terms of a taxonomy table: term i, then (j # 0) " y " and
\* term j, or the two the other way round; caps writes the text in capitals
ProbeConvenio == {5, 17, 28}

TableOf(name) == IF name = "convenio" THEN tipos_convenio ELSE tipos_renovacion

TermInputs ==
  {[kind |-> "terms", table |-> "convenio", i |-> i, j |-> j, swap |-> sw, caps |-> cp] :
     i \in 1..Len(tipos_convenio), j \in ProbeConvenio \cup {0}, sw \in BOOLEAN, cp \in BOOLEAN}
  \cup
  {[kind |-> "terms", table |-> "renovacion", i |-> i, j |-> j, swap |-> sw, caps |-> cp] :
     i \in 1..Len(tipos_renovacion), j \in 0..Len(tipos_renovacion), sw \in BOOLEAN,
     cp \in BOOLEAN}

TermDraws == {x \in TermInputs : x.i # x.j /\ (x.j = 0 => ~x.swap) /\ (x.caps => x.j = 0)}

TermText(x) ==
  LET ti == TableOf(x.table)[x.i][1]
      t == IF x.j = 0 THEN ti
           ELSE IF x.swap THEN TableOf(x.table)[x.j][1] \o " y " \o ti
           ELSE ti \o " y " \o TableOf(x.table)[x.j][1]
  IN IF x.caps THEN upper(t) ELSE t

\* institution mentions; a document lists some of the first InstPoolSize of
\* them, in this order, separated by ", "
InstPool ==
  <<"Instituto Balseiro", "Universidad Nacional de Salta", "Ministerio de Salud",
    "universidad nacional de salta", "Fundacion Sol", "Provincia de Jujuy",
    "Universidad Catolica", "Empresa Minera", "Asociacion Civil Norte",
    "Municipalidad de Cafayate", "INSTITUTO BALSEIRO">>

InstPoolSize == 7

\* signer mentions, used in the same way: an optional title and the
\* capitalised words of the name
SignerPool ==
  << [title |-> "", words |-> <<"Juan", "Perez">>],
     [title |-> "Dr", words |-> <<"Ana", "Maria", "Gomez">>],
     [title |-> "Ing", words |-> <<"Luis", "Sosa">>],
     [title |-> "Dr", words |-> <<"Juan", "Perez">>],
     [title |-> "", words |-> <<"Rosa", "Diaz">>],
     [title |-> "", words |-> <<"Pedro", "Luna">>],
     [title |-> "Lic", words |-> <<"Marta", "Ruiz">>],
     [title |-> "", words |-> <<"Al", "Gore">>],
     [title |-> "", words |-> <<"Juan", "Perez">>],
     [title |-> "", words |-> <<"Eva", "Paz">>] >>

SignerMention(r) == (IF r.title = "" THEN "" ELSE r.title \o ". ") \o Join(r.words, " ")

SignerPoolSize == 7

RECURSIVE Picked(_, _, _)
\* the mentions of the pool whose index is in sel, in pool order
Picked(pool, sel, k) ==
  IF k > Len(pool) THEN <<>>
  ELSE (IF k \in sel THEN <<pool[k]>> ELSE <<>>) \o Picked(pool, sel, k + 1)

MentionInputs(n) == {[kind |-> "mentions", sel |-> sl] : sl \in SUBSET (1..n)}

InstText(x) == Join(Picked(InstPool, x.sel, 1), ", ")

SignerMentions(ms) == [k \in 1..Len(ms) |-> SignerMention(ms[k])]

SignerText(x) == Join(SignerMentions(Picked(SignerPool, x.sel, 1)), ", ")

\* a signer named after a word of the title table (k = 0: after a word that
\* is no title); far puts more than ContextWindow characters between the
\* word and the name
Filler ==
  "que obra en este acto en nombre y por cuenta de la casa de altos estudios segun consta en las actuaciones que se citan "

CargoInputs == {[kind |-> "cargo", k |-> k, far |-> f] : k \in 0..Len(cargos), f \in BOOLEAN}

CargoText(x) ==
  "el " \o (IF x.k = 0 THEN "senor" ELSE cargos[x.k][1]) \o " "
    \o (IF x.far THEN Filler ELSE "") \o "Juan Perez firma el acta"

\* a file of up to MaxPages pages handed to ocr_pdf: whether it converts
\* to images and which page, if any, makes the OCR raise
MaxPages == 12

PdfInputs ==
  {[kind |-> "pdf", pages |-> n, converts |-> c, bad |-> b] :
     n \in 0..MaxPages, c \in BOOLEAN, b \in {0, 1, MaxPages}}

PdfDraws == {x \in PdfInputs : x.bad <= x.pages /\ (~x.converts => x.bad = 0)}

\* a document handed to process_single_pdf: its text and whether the
\* download of its file succeeds
ProcessInput(x, dl) == [kind |-> "process", doc |-> x, downloaded |-> dl]

\* the lines of a URL file: a blank line, or a locator with the document
\* served for it (its download fails, or gives a text that is too short, or
\* the sentence of the scenario)
BatchUrls == {"https://bo.unsa.edu.ar/dr/R-DR-2020-0123.pdf", "R-DR-2019-123.pdf"}

BatchLines ==
  {[line |-> "  ", text |-> "", downloaded |-> FALSE]}
  \cup {[line |-> u, text |-> "", downloaded |-> FALSE] : u \in BatchUrls}
  \cup {[line |-> u, text |-> t, downloaded |-> TRUE] : u \in BatchUrls, t \in {"sin datos", Sentence}}

\* a file holds up to MaxBatch lines
MaxBatch == 3

BatchInputs ==
  {[kind |-> "batch", lines |-> <<>>, readable |-> FALSE]}
  \cup {[kind |-> "batch", lines |-> ls, readable |-> TRUE] :
          ls \in UNION {[1..n -> BatchLines] : n \in 0..MaxBatch}}

Urls ==
  {"https://bo.unsa.edu.ar/dr/R-DR-2020-0123.pdf", "R-DR-2019-123.pdf",
   "https://bo.unsa.edu.ar/dr/anexo.pdf"}

\* the locators of the documents that hold a case-file number
YearUrls == {"https://bo.unsa.edu.ar/dr/R-DR-2020-0123.pdf", "https://bo.unsa.edu.ar/dr/anexo.pdf"}

---------------------------------------------------------------------------
(* The state: the latest call made on the extractor (op), its arguments     *)
(* (text, url; inp tells how the text was written), the value it returned   *)
(* or the exception it raised (result) and the records it logged (log).     *)
(* The passes are pure and the extractor keeps no state between calls, so   *)
(* a call starts from the state Return leaves.                              *)

Init ==
  /\ op = "init"
  /\ inp = [kind |-> "none"]
  /\ text = ""
  /\ url = ""
  /\ result = <<>>
  /\ log = <<>>

ResolutionCall(x, t, u) ==
  /\ op = "init"
  /\ op' = "extract_resolution_data"
  /\ inp' = x
  /\ text' = t
  /\ url' = u
  /\ result' = extract_resolution_data(t, u)
  /\ log' = <<>>

ConvenioCall(x, t) ==
  /\ op = "init"
  /\ op' = "extract_convenio_data"
  /\ inp' = x
  /\ text' = t
  /\ url' = ""
  /\ result' = extract_convenio_data(t)
  /\ log' = <<>>

InstitutionsCall(x, t) ==
  /\ op = "init"
  /\ op' = "extract_institutions"
  /\ inp' = x
  /\ text' = t
  /\ url' = ""
  /\ result' = extract_institutions(t)
  /\ log' = <<>>

SignersCall(x, t) ==
  /\ op = "init"
  /\ op' = "extract_signers"
  /\ inp' = x
  /\ text' = t
  /\ url' = ""
  /\ result' = extract_signers(t)
  /\ log' = <<>>

OcrCall(x) ==
  /\ op = "init"
  /\ op' = "ocr_pdf"
  /\ inp' = x
  /\ text' = ""
  /\ url' = ""
  /\ result' = ocr_pdf(x.pages, x.converts, x.bad)
  /\ log' = result'.log

BatchCall(x) ==
  /\ op = "init"
  /\ op' = "process_urls_file"
  /\ inp' = x
  /\ text' = ""
  /\ url' = ""
  /\ result' = process_urls_file(x.lines, x.readable)
  /\ log' = result'.log

ProcessCall(x, t, u) ==
  /\ op = "init"
  /\ op' = "process_single_pdf"
  /\ inp' = x
  /\ text' = t
  /\ url' = u
  /\ result' = process_single_pdf(u, t, x.downloaded)
  /\ log' = result'.log

ExtractResolutionData ==
  \/ \E x \in DateDraws : ResolutionCall(x, DateText(x), "https://bo.unsa.edu.ar/dr/anexo.pdf")
  \/ \E x \in YearInputs("expediente"), u \in YearUrls : ResolutionCall(x, YearText(x), u)
  \/ \E x \in ScenarioInputs, u \in Urls : ResolutionCall(x, ScenarioText(x), u)
  \/ \E x \in PlainInputs, u \in Urls : ResolutionCall(x, PlainTexts[x.k], u)

ExtractConvenioData ==
  \/ \E x \in TermDraws : ConvenioCall(x, TermText(x))
  \/ \E x \in YearInputs("firmado") : ConvenioCall(x, YearText(x))
  \/ \E x \in ScenarioInputs : ConvenioCall(x, ScenarioText(x))
  \/ \E x \in PlainInputs : ConvenioCall(x, PlainTexts[x.k])

ExtractInstitutions ==
  \/ \E x \in MentionInputs(InstPoolSize) : InstitutionsCall(x, InstText(x))
  \/ \E x \in ScenarioInputs : InstitutionsCall(x, ScenarioText(x))
  \/ \E x \in PlainInputs : InstitutionsCall(x, PlainTexts[x.k])

ExtractSigners ==
  \/ \E x \in MentionInputs(SignerPoolSize) : SignersCall(x, SignerText(x))
  \/ \E x \in CargoInputs : SignersCall(x, CargoText(x))
  \/ \E x \in ScenarioInputs : SignersCall(x, ScenarioText(x))
  \/ \E x \in PlainInputs : SignersCall(x, PlainTexts[x.k])

OcrPdf == \E x \in PdfDraws : OcrCall(x)

ProcessSinglePdf ==
  \/ \E x \in ScenarioInputs, u \in Urls, dl \in BOOLEAN :
       ProcessCall(ProcessInput(x, dl), ScenarioText(x), u)
  \/ \E x \in PlainInputs, u \in Urls, dl \in BOOLEAN :
       ProcessCall(ProcessInput(x, dl), PlainTexts[x.k], u)

ProcessUrlsFile == \E x \in BatchInputs : BatchCall(x)

\* the caller takes the outcome of the call; the extractor keeps nothing of it
Return ==
  /\ op # "init"
  /\ op' = "init"
  /\ inp' = [kind |-> "none"]
  /\ text' = ""
  /\ url' = ""
  /\ result' = <<>>
  /\ log' = <<>>

Next ==
  \/ Return
  \/ ExtractResolutionData
  \/ ExtractConvenioData
  \/ ExtractInstitutions
  \/ ExtractSigners
  \/ OcrPdf
  \/ ProcessSinglePdf
  \/ ProcessUrlsFile

Spec == Init /\ [][Next]_vars

---------------------------------------------------------------------------
(* What the passes are expected to give, told from the documents alone      *)

HasDigit(s) == \E i \in 1..Len(s) : Ch(s, i) \in Digit

HasUpper(s) == \E i \in 1..Len(s) : Ch(s, i) \in Upper

AllDigits(s) == \A i \in 1..Len(s) : Ch(s, i) \in Digit

EndsWith(s, suffix) ==
  Len(s) >= Len(suffix) /\ SubSeq(s, Len(s) - Len(suffix) + 1, Len(s)) = suffix

\* the term stands at position p of the lower-cased text ls with no letter,
\* digit or underscore next to it on either side
OccursAt(term, ls, p) ==
  /\ SubSeq(ls, p, p + Len(term) - 1) = term
  /\ p = 1 \/ Ch(ls, p - 1) \notin Word
  /\ p + Len(term) > Len(ls) \/ Ch(ls, p + Len(term)) \notin Word

\* the term is a whole-word match somewhere in ls
Occurs(term, ls) == \E p \in 1..(Len(ls) - Len(term) + 1) : OccursAt(term, ls, p)

\* the places of the table whose term occurs in ls
Occurring(table, ls) == {k \in 1..Len(table) : Occurs(table[k][1], ls)}

\* a value is decided by declaration order when, as soon as two terms of
\* the table occur, it is the value of the one declared first
DecidedByOrder(table, occ, value) ==
  \A a \in occ, b \in occ : (a < b /\ \A c \in occ : a <= c) => value = table[a][2]

\* term a of the table is declared before every other term of the table
\* that it holds as whole words
DeclaredBeforeItsParts(table, a) ==
  \A b \in 1..Len(table) : (a # b /\ Occurs(table[b][1], table[a][1])) => a < b

\* YYYY-MM-DD of a date of the calendar
IsISODate(s) ==
  /\ Len(s) = 10
  /\ Ch(s, 5) = "-" /\ Ch(s, 8) = "-"
  /\ AllDigits(SubSeq(s, 1, 4)) /\ AllDigits(SubSeq(s, 6, 7)) /\ AllDigits(SubSeq(s, 9, 10))
  /\ ValidDate(int(SubSeq(s, 9, 10)), int(SubSeq(s, 6, 7)), int(SubSeq(s, 1, 4)))

\* the canonical text of a date
Canon(d, m, y) == Str(y) \o "-" \o Pad2(m) \o "-" \o Pad2(d)

\* the two-digit years above the pivot
Pivot == 50

AbovePivot == {Str(n) : n \in (Pivot + 1)..99}

Expanded(tok) == IF tok \in AbovePivot THEN "19" \o tok ELSE "20" \o tok

\* the year a year document makes its pass give
YearGiven ==
  IF inp.ctx = "expediente" THEN result.expediente_anio
  ELSE SubSeq(result.fecha_firma, 1, Len(result.fecha_firma) - Len("-08-07"))

\* the prefixes of the institution patterns, in the order of the patterns
Prefixes ==
  <<"universidad", "instituto", "ministerio", "gobierno", "provincia", "municipalidad",
    "fundacion", "empresa", "asociacion">>

PrefixOf(mention) ==
  CHOOSE p \in 1..Len(Prefixes) : lower(SubSeq(mention, 1, Len(Prefixes[p]))) = Prefixes[p]

RECURSIVE ByPrefix(_, _)
\* the mentions in discovery order: by pattern, then by place in the text
ByPrefix(ms, p) ==
  IF p > Len(Prefixes) THEN <<>>
  ELSE LET Mine(m) == PrefixOf(m) = p
       IN SelectSeq(ms, Mine) \o ByPrefix(ms, p + 1)

InstCandidate(name) == [key |-> lower(name), ok |-> Len(name) > 5, entry |-> name]

InstCandidates(ms) == [k \in 1..Len(ms) |-> InstCandidate(ms[k])]

SignerCandidate(nombre, apellido) ==
  [key |-> lower(nombre \o " " \o apellido), ok |-> Len(nombre) > 2 /\ Len(apellido) > 2,
   entry |-> <<nombre, apellido>>]

\* the generic pattern takes the first word and all the words after it
GenericCandidates(ms) ==
  [k \in 1..Len(ms) |-> SignerCandidate(ms[k].words[1], Join(Tail(ms[k].words), " "))]

\* a titled pattern takes the two words after its title
TitledCandidates(ms, title) ==
  LET Mine(m) == m.title = title
      mine == SelectSeq(ms, Mine)
  IN [k \in 1..Len(mine) |-> SignerCandidate(mine[k].words[1], mine[k].words[2])]

SignerCandidates(ms) ==
  GenericCandidates(ms) \o TitledCandidates(ms, "Dr") \o TitledCandidates(ms, "Ing")
    \o TitledCandidates(ms, "Lic")

RECURSIVE Accepted(_, _, _, _)
\* the candidates that are accepted, in discovery order: those that are
\* long enough and whose key was not met before
Accepted(cands, k, keys, acc) ==
  IF k > Len(cands) THEN acc
  ELSE IF cands[k].ok /\ cands[k].key \notin keys
       THEN Accepted(cands, k + 1, keys \cup {cands[k].key}, Append(acc, cands[k].entry))
  ELSE Accepted(cands, k + 1, keys, acc)

FirstFive(seq) == SubSeq(seq, 1, Min({5, Len(seq)}))

ExpectedInstitutions(sel) ==
  FirstFive(Accepted(InstCandidates(ByPrefix(Picked(InstPool, sel, 1), 1)), 1, {}, <<>>))

ExpectedSigners(sel) ==
  FirstFive(Accepted(SignerCandidates(Picked(SignerPool, sel, 1)), 1, {}, <<>>))

InstitutionNames(list) == [k \in 1..Len(list) |-> list[k].nombre]

SignerNames(list) == [k \in 1..Len(list) |-> <<list[k].nombre, list[k].apellido>>]

NoTwoAlike(keys) ==
  \A a, b \in 1..Len(keys) : a # b => lower(keys[a]) # lower(keys[b])

SignerKeys(list) == [k \in 1..Len(list) |-> list[k].nombre \o " " \o list[k].apellido]

HasEntry(list, nombre, tipo) ==
  \E k \in 1..Len(list) : list[k].nombre = nombre /\ list[k].tipo = tipo

---------------------------------------------------------------------------
(* C1                                                                       *)

---------------------------------------------------------------------------
(* C2                                                                       *)

\* C2: in the agreement-type and renewal-type tables a term that holds
\* another term as whole words is declared before it, so that a text made of
\* a compound term is classified with the canonical value of that term.
C2_CompoundBeforeGeneric ==
  (op = "extract_convenio_data" /\ inp.kind = "terms" /\ inp.j = 0) =>
    /\ DeclaredBeforeItsParts(TableOf(inp.table), inp.i)
    /\ inp.table = "convenio" => result.tipo_convenio = tipos_convenio[inp.i][2]
    /\ inp.table = "renovacion" => result.tipo_renovacion = tipos_renovacion[inp.i][2]

---------------------------------------------------------------------------
(* C3                                                                       *)

\* C3: whenever two terms of a table both occur in the text as whole words,
\* in any letter case, and no term declared before both occurs, tipoConvenio
\* (tipoRenovacion) is the canonical value of the one declared earlier,
\* whichever of the two comes first in the text.
C3_DeclarationOrderDecides ==
  op = "extract_convenio_data" =>
    /\ DecidedByOrder(tipos_convenio, Occurring(tipos_convenio, lower(text)),
                      result.tipo_convenio)
    /\ DecidedByOrder(tipos_renovacion, Occurring(tipos_renovacion, lower(text)),
                      result.tipo_renovacion)

\* a text in which the term declared later comes first and holds the other
\* term inside it has been classified by the term declared earlier
C3_LaterTermFirstInText ==
  /\ op = "extract_convenio_data"
  /\ inp.kind = "terms"
  /\ inp.table = "convenio"
  /\ inp.j # 0 /\ inp.j < inp.i /\ ~inp.swap
  /\ In(tipos_convenio[inp.j][1], tipos_convenio[inp.i][1])
  /\ result.tipo_convenio = tipos_convenio[inp.j][2]
  /\ result.tipo_convenio # tipos_convenio[inp.i][2]

---------------------------------------------------------------------------
(* C4                                                                       *)

\* C4: the lists of extract_institutions and extract_signers have at most 5
\* entries, no two entries whose keys (nombre; "nombre apellido") are equal
\* when letter case is ignored, and hold the first 5 accepted candidates in
\* discovery order: by pattern, then from left to right.
C4_ListsCappedAndDeduplicated ==
  /\ op = "extract_institutions" =>
       /\ Len(result) <= 5
       /\ NoTwoAlike(InstitutionNames(result))
       /\ inp.kind = "mentions" => InstitutionNames(result) = ExpectedInstitutions(inp.sel)
  /\ op = "extract_signers" =>
       /\ Len(result) <= 5
       /\ NoTwoAlike(SignerKeys(result))
       /\ inp.kind = "mentions" => SignerNames(result) = ExpectedSigners(inp.sel)

\* a document naming more than five distinct institutions, one of them
\* twice in different letter case, has given a list of five
C4_MoreThanFiveMentioned ==
  /\ op = "extract_institutions"
  /\ inp.kind = "mentions"
  /\ {2, 4} \subseteq inp.sel
  /\ Cardinality({lower(InstPool[k]) : k \in inp.sel}) > 5
  /\ Len(result) = 5

---------------------------------------------------------------------------
(* C5                                                                       *)

\* C5: each date field of a record, the fecha of the resolution and the
\* fechaFirma of the agreement, is empty or a date of the calendar written
\* YYYY-MM-DD.
C5_DatesEmptyOrISO ==
  /\ op = "extract_resolution_data" => (result.fecha = "" \/ IsISODate(result.fecha))
  /\ op = "extract_convenio_data" =>
       (result.fecha_firma = "" \/ IsISODate(result.fecha_firma))

---------------------------------------------------------------------------
(* C6                                                                       *)

\* C6: a captured year of exactly two digits becomes "19" + yy when its
\* value is greater than 50 and "20" + yy otherwise, and a captured year of
\* four digits is left as it is, in the case-file year and in the numeric
\* signing date alike.
C6_PivotAtFifty ==
  (inp.kind = "year" /\ op \in {"extract_resolution_data", "extract_convenio_data"}) =>
    /\ Len(inp.tok) = 2 => YearGiven = Expanded(inp.tok)
    /\ Len(inp.tok) = 4 => YearGiven = inp.tok
    /\ inp.tok = "49" => YearGiven = "2049"
    /\ inp.tok = "50" => YearGiven = "2050"
    /\ inp.tok = "51" => YearGiven = "1951"

\* a signing date written with the year 50 has been expanded
C6_YearFiftySigned ==
  /\ op = "extract_convenio_data"
  /\ inp.kind = "year"
  /\ inp.tok = "50"
  /\ result.fecha_firma = "2050-08-07"

---------------------------------------------------------------------------
(* C7                                                                       *)

\* C7: when the text of a downloaded document has fewer than 50 characters,
\* process_single_pdf logs the insufficient-text warning, returns no record
\* and runs none of the four passes; when it has 50 or more, a record is
\* returned.
C7_InsufficientTextReported ==
  (op = "process_single_pdf" /\ inp.downloaded) =>
    /\ Len(text) < 50 =>
         /\ result.raised = ""
         /\ result.value = "None"
         /\ result.passes = {}
         /\ \E k \in 1..Len(log) : log[k][1] = "WARNING"
    /\ Len(text) >= 50 =>
         /\ result.raised = ""
         /\ result.value # "None"

---------------------------------------------------------------------------
(* C8                                                                       *)

\* C8: the four passes return for every text and locator, and a field whose
\* pattern finds nothing holds its default: without an agreement-type term
\* tipoConvenio is "Marco" (it is never empty), without a renewal term
\* tipoRenovacion is empty, without one of the three words internacional is
\* false; tipo is "DR", and dependenciaId and observaciones are empty.
C8_DefaultsWhenNothingMatches ==
  /\ op = "extract_resolution_data" =>
       /\ result.tipo = "DR"
       /\ result.dependencia_id = ""
       /\ result.link = url
       /\ ~HasDigit(url) => result.numero = ""
       /\ ~HasDigit(text) => (result.fecha = "" /\ result.expediente_numero = "")
       /\ (~HasDigit(text) /\ ~HasDigit(url)) => result.expediente_anio = ""
  /\ op = "extract_convenio_data" =>
       /\ result.observaciones = ""
       /\ result.tipo_convenio # ""
       /\ Occurring(tipos_convenio, lower(text)) = {} => result.tipo_convenio = "Marco"
       /\ Occurring(tipos_renovacion, lower(text)) = {} => result.tipo_renovacion = ""
       /\ Occurring(<<<<"internacional">>, <<"extranjero">>, <<"exterior">>>>, lower(text)) = {}
            => result.internacional = "false"
       /\ ~HasDigit(text) => (result.duracion = "" /\ result.fecha_firma = "")
       /\ ~In("convenio", lower(text)) => result.titulo = ""
       /\ (\A w \in {"objeto", "prop", "finalidad"} : ~In(w, lower(text))) => result.objeto = ""
  /\ op = "extract_institutions" =>
       ((\A p \in 1..Len(Prefixes) : ~In(Prefixes[p], lower(text))) => result = <<>>)
  /\ op = "extract_signers" => (~HasUpper(text) => result = <<>>)

\* a text that holds agreement words only inside longer words has been
\* given the default type
C8_NoTermInText ==
  /\ op = "extract_convenio_data"
  /\ inp.kind = "plain"
  /\ In("marco", text)
  /\ Occurring(tipos_convenio, lower(text)) = {}
  /\ result.tipo_convenio = "Marco"
  /\ result.tipo_renovacion = ""
  /\ result.internacional = "false"

---------------------------------------------------------------------------
(* C9                                                                       *)

\* C9: a date of the calendar with a four-digit year, written "D de <mes> de
\* YYYY", "D/M/YYYY" or "YYYY-M-D", with or without leading zeros, as the
\* whole text, gives in all three cases the same resolution fecha: YYYY-MM-DD
\* with month and day padded to two digits.
C9_DateRoundTrip ==
  (op = "extract_resolution_data" /\ inp.kind = "date" /\ ValidDate(inp.d, inp.m, inp.y)) =>
    result.fecha = Canon(inp.d, inp.m, inp.y)

\* a date written year first and without leading zeros has been parsed
C9_UnpaddedDashDate ==
  /\ op = "extract_resolution_data"
  /\ inp.kind = "date"
  /\ inp.fmt = "dash" /\ ~inp.pad
  /\ inp.d = 9 /\ inp.m = 2
  /\ text = "2023-2-9"
  /\ result.fecha = "2023-02-09"

---------------------------------------------------------------------------
(* C10                                                                      *)

\* C10: expedienteAnio of the resolution record is empty or made of exactly
\* four digits, for every text and locator.
C10_ExpedienteAnioFourDigits ==
  op = "extract_resolution_data" =>
    (result.expediente_anio = "" \/
       (Len(result.expediente_anio) = 4 /\ AllDigits(result.expediente_anio)))

---------------------------------------------------------------------------
(* C11                                                                      *)

\* C11: a signer whose context window holds one term of the title table
\* gets the canonical title of that term as cargo ("vicerrector" gives
\* "Vicerrector/a", "director" gives "Director/a", "decano" gives
\* "Decano/a"), and a signer whose window holds no term of the table gets
\* "Rector/a".
C11_TitleTermsClassified ==
  (op = "extract_signers" /\ inp.kind = "cargo") =>
    /\ Len(result) = 1
    /\ result[1].cargo = (IF inp.k = 0 \/ inp.far THEN "Rector/a" ELSE cargos[inp.k][2])

---------------------------------------------------------------------------
(* C12                                                                      *)

\* C12: for a file converted to N page images (and no failure of the OCR),
\* ocr_pdf runs the OCR on min(N, 10) pages, and the text it returns holds
\* the block of no page above 10.
C12_AtMostTenPages ==
  (op = "ocr_pdf" /\ inp.converts /\ inp.bad = 0) =>
    /\ result.pages = Min({inp.pages, 10})
    /\ \A p \in 11..inp.pages : ~In("--- PÁGINA " \o Str(p) \o " ---", result.text)

---------------------------------------------------------------------------
(* C13                                                                      *)

\* the locators listed in a file, in the order of its lines
Listed(lines) ==
  LET IsUrl(entry) == entry.line \in BatchUrls
      kept == SelectSeq(lines, IsUrl)
  IN [k \in 1..Len(kept) |-> kept[k].line]

\* C13: for a URL list of length N, process_urls_file attempts every URL
\* once, in list order, whatever happens to the URLs before it; when it is
\* done processed + errors = N and the CSV holds the header and exactly
\* `processed` rows.
C13_BatchAccounting ==
  (op = "process_urls_file" /\ inp.readable) =>
    /\ result.attempted = Listed(inp.lines)
    /\ result.completed
    /\ result.processed + result.errors = Len(Listed(inp.lines))
    /\ result.header = fieldnames
    /\ Len(result.rows) = result.processed

===========================================================================
